---- MODULE Spec2Model ----
(***************************************************************************)
(* Model of the chat-bot back end (src/BackEnd/server.js): the request     *)
(* queue with its single worker flag, the rate-limit delay, the 429        *)
(* back-off loop of generateTextFromGemini, the POST /generate-text1       *)
(* handler and the message store it appends to.                            *)
(*                                                                         *)
(* One step of the model is one turn of the Node event loop: the           *)
(* synchronous code of a callback together with every promise continuation *)
(* (microtask) it makes runnable.  The points at which a step ends are the *)
(* awaits on a timer, on axios.post and on a document save.                *)
(*                                                                         *)
(* The chat UI (src/FrontEnd/src/GenerateTextComponent.js and the variants *)
(* src/unnamed/part_000, part_001) is modelled next to it, with its own    *)
(* specification UiSpec: the state of the component, handleSubmit and the  *)
(* 429 retry timer.  One step is one event handler or one continuation of  *)
(* handleSubmit, with the render that follows it.                          *)
(***************************************************************************)
EXTENDS Integers, Sequences, FiniteSets, TLC

(* ---------------- program constants (server.js:13-15) ------------------ *)
RATE_LIMIT_DELAY == 5000
MAX_RETRIES == 3
INITIAL_RETRY_DELAY == 1000

(* ---------------- bounds of the model ---------------------------------- *)
MaxRequests == 2          \* HTTP requests that arrive in one behaviour
MaxTicks == 7             \* clock ticks in one behaviour
MaxSubmits == 2           \* submit events of the chat UI in one behaviour
MaxSends == 4             \* requests the chat UI sends in one behaviour

TickMs == INITIAL_RETRY_DELAY            \* granularity of the clock
StartTime == RATE_LIMIT_DELAY            \* Date.now() at the first request
MaxNow == StartTime + MaxTicks * TickMs

Reqs == 1..MaxRequests

(* A request body is modelled as the sequence of its prompt fields: <<>>   *)
(* is a body without prompt, <<"">> a body with the empty prompt.  The     *)
(* non-empty prompts of different requests differ, so that a record, a     *)
(* call or a response can be traced to the request it belongs to.          *)
PromptOf(i) == "prompt " \o ToString(i)
Bodies(i) == {<<>>, <<"">>, <<PromptOf(i)>>}

(* The text the upstream API generates is a function of the prompt, so     *)
(* the answers to different requests differ as well.                       *)
TextFor(p) == "answer to " \o p
Texts == {TextFor(PromptOf(i)) : i \in Reqs}

VARIABLES
  now,              \* Date.now()
  apiKeySet,        \* process.env.GEMINI_API_KEY is set
  lastRequestTime,  \* server.js:18
  isProcessing,     \* server.js:19
  requestQueue,     \* server.js:20, as the sequence of the queued requests
  body,             \* body[i]: req.body of request i (<<"?">> before arrival)
  pc,               \* pc[i]: where the handling of request i stands
  retryCount,       \* retryCount[i]: parameter of the running generateTextFromGemini
  timer,            \* timer[i]: time at which the pending setTimeout of i is due
  genText,          \* genText[i]: response.choices[0].message.content
  userTime,         \* userTime[i]: userMessage.intime
  asstTime,         \* asstTime[i]: geminiResponseMessage.intime
  res,              \* res[i]: the HTTP response sent for request i
  store,            \* the Ai collection, in insertion order
  calls,            \* history: the last upstream call, after the one before
                    \* it while it is in flight
  attempts          \* history: attempts[i] counts the upstream calls made for i

(* the chat UI *)
VARIABLES
  backendBacked,    \* the variant: TRUE posts to /generate-text1 (part_000),
                    \* FALSE posts to the upstream API (GenerateTextComponent.js)
  prompt,           \* useState: the text of the input field, as its characters
  messages,         \* useState: the transcript
  error,            \* useState
  isLoading,        \* useState
  retryAfter,       \* useState
  uiPc,             \* uiPc[k]: where the k-th submitted prompt stands
  uiSent,           \* uiSent[k]: the prompt in the closure of that handleSubmit
  uiSends,          \* history: uiSends[k] counts the requests sent for it
  uiDue,            \* uiDue[k]: seconds until its pending setTimeout is due
  timersSet,        \* history: timersSet[k] counts the timers set for it
  submitEvents      \* history: the submit events handled so far

serverVars == <<now, apiKeySet, lastRequestTime, isProcessing, requestQueue, body,
                pc, retryCount, timer, genText, userTime, asstTime, res, store,
                calls, attempts>>

uiVars == <<backendBacked, prompt, messages, error, isLoading, retryAfter,
            uiPc, uiSent, uiSends, uiDue, timersSet, submitEvents>>

vars == <<now, apiKeySet, lastRequestTime, isProcessing, requestQueue, body, pc,
          retryCount, timer, genText, userTime, asstTime, res, store, calls,
          attempts, uiVars>>

NoRes == [status |-> 0, error |-> "", details |-> "", retryAfter |-> 0,
          userInput |-> "", time |-> 0, gpt3Response |-> ""]

(* The state as one record, so that the synchronous code of a handler can  *)
(* be written as the composition of the functions it calls.                *)
St == [now |-> now, lastRequestTime |-> lastRequestTime,
       isProcessing |-> isProcessing, requestQueue |-> requestQueue,
       body |-> body, pc |-> pc, retryCount |-> retryCount, timer |-> timer,
       genText |-> genText, userTime |-> userTime, asstTime |-> asstTime,
       res |-> res, store |-> store, calls |-> calls, attempts |-> attempts]

Becomes(S) ==
  /\ now' = S.now
  /\ lastRequestTime' = S.lastRequestTime
  /\ isProcessing' = S.isProcessing
  /\ requestQueue' = S.requestQueue
  /\ body' = S.body
  /\ pc' = S.pc
  /\ retryCount' = S.retryCount
  /\ timer' = S.timer
  /\ genText' = S.genText
  /\ userTime' = S.userTime
  /\ asstTime' = S.asstTime
  /\ res' = S.res
  /\ store' = S.store
  /\ calls' = S.calls
  /\ attempts' = S.attempts
  /\ UNCHANGED <<apiKeySet, uiVars>>

RECURSIVE Pow2(_)
Pow2(k) == IF k = 0 THEN 1 ELSE 2 * Pow2(k - 1)

(* a check for a missing field only, which lets the empty prompt through *)
PromptUndefinedOnly(b) == b = <<>>

(* !prompt (server.js:176) *)
PromptMissing(b) == b = <<>> \/ b[1] = ""

Prompt(b) == b[1]

(* ---------------- errors ----------------------------------------------- *)
(* An error object: its name and message, and error.response when the     *)
(* error is an axios error that carries an HTTP response.                  *)
PlainError(msg) ==
  [name |-> "Error", message |-> msg, hasResponse |-> FALSE, status |-> 0, data |-> ""]
(* error.response.data: the body the upstream API sent with status st *)
UpstreamBody(st) == "upstream body of " \o ToString(st)

AxiosHttpError(st) ==
  [name |-> "AxiosError", message |-> "Request failed", hasResponse |-> TRUE,
   status |-> st, data |-> UpstreamBody(st)]
AxiosNoResponse ==
  [name |-> "AxiosError", message |-> "timeout of 30000ms exceeded",
   hasResponse |-> FALSE, status |-> 0, data |-> ""]
SaveError(nm) ==
  [name |-> nm, message |-> "save failed", hasResponse |-> FALSE, status |-> 0, data |-> ""]

(* a catch block that answers every failure with the generic 500 *)
ErrorResponseGeneric(err) ==
  [NoRes EXCEPT !.status = 500, !.error = "Error generating response",
                !.details = err.message]

(* catch block of the route handler (server.js:209-239) *)
ErrorResponse(err) ==
  IF err.hasResponse /\ err.status = 429
    THEN [NoRes EXCEPT !.status = 429, !.error = "Rate limit exceeded",
                       !.details = "Please wait a moment and try again",
                       !.retryAfter = RATE_LIMIT_DELAY \div 1000]
  ELSE IF err.hasResponse
    THEN [NoRes EXCEPT !.status = err.status, !.error = "Gemini API Error",
                       !.details = err.data]
  ELSE IF err.name = "MongoError"
    THEN [NoRes EXCEPT !.status = 500, !.error = "Database Error",
                       !.details = err.message]
  ELSE [NoRes EXCEPT !.status = 500, !.error = "Error generating response",
                     !.details = err.message]

(* a catch block that logs the error and sends nothing *)
HandlerCatchSilent(S, i, err) ==
  [S EXCEPT !.pc[i] = "done",
            !.retryCount[i] = 0, !.timer[i] = 0, !.genText[i] = "",
            !.userTime[i] = 0, !.asstTime[i] = 0]

(* the handler ends here: its locals are gone *)
HandlerCatch(S, i, err) ==
  [S EXCEPT !.pc[i] = "done", !.res[i] = ErrorResponse(err),
            !.retryCount[i] = 0, !.timer[i] = 0, !.genText[i] = "",
            !.userTime[i] = 0, !.asstTime[i] = 0]

(* ---------------- the queue worker ------------------------------------- *)
(* a guard that forgets the worker flag *)
CanStartNoFlag(busy, q) == Len(q) > 0

(* guard of processQueue (server.js:24), negated *)
CanStart(busy, q) == ~busy /\ Len(q) > 0

(* a worker that never waits *)
RateWaitNone(t, last) == 0

(* the wait of server.js:30-34; 0 when no timer is set *)
RateWait(t, last) ==
  IF t - last < RATE_LIMIT_DELAY THEN RATE_LIMIT_DELAY - (t - last) ELSE 0

(* a back-off that grows linearly *)
RetryDelayLinear(k) == INITIAL_RETRY_DELAY * (k + 1)

(* the back-off of server.js:156 *)
RetryDelay(k) == INITIAL_RETRY_DELAY * Pow2(k)

(* a retry condition that retries every failure *)
ShouldRetryAnyError(hasResponse, status, k) == k < MAX_RETRIES

(* a retry condition without the attempt cap *)
ShouldRetryNoCap(hasResponse, status, k) == hasResponse /\ status = 429

(* the retry condition of server.js:155 *)
ShouldRetry(hasResponse, status, k) ==
  hasResponse /\ status = 429 /\ k < MAX_RETRIES

(* a call that reads its prompt from the front of the queue *)
PromptArgQueued(S, i) ==
  IF Len(S.requestQueue) > 0 THEN Prompt(S.body[Head(S.requestQueue)])
                             ELSE Prompt(S.body[i])

(* the prompt a call of generateTextFromGemini sends (server.js:97-103):  *)
(* its parameter userPrompt, which the retry of server.js:159 passes on    *)
PromptArg(S, i) == Prompt(S.body[i])

NewCall(i, p, k, t) ==
  [req |-> i, prompt |-> p, retry |-> k, start |-> t, end |-> -1,
   outcome |-> "pending", status |-> 0]

(* the history keeps the call before the new one, and the new one *)
Logged(cs, c) == IF Len(cs) = 0 THEN <<c>> ELSE <<cs[Len(cs)], c>>

RECURSIVE ProcessQueue(_), Generate(_, _, _), Settle(_, _, _, _), Finally(_)

(* processQueue (server.js:23-47) up to its first await *)
ProcessQueue(S) ==
  IF ~CanStart(S.isProcessing, S.requestQueue) THEN S
  ELSE LET h == Head(S.requestQueue)
           S1 == [S EXCEPT !.isProcessing = TRUE, !.requestQueue = Tail(@)]
           w == RateWait(S.now, S.lastRequestTime)
       IN  IF w > 0
             THEN [S1 EXCEPT !.pc[h] = "rateWait", !.timer[h] = S.now + w]
             ELSE Generate(S1, h, 0)

(* generateTextFromGemini (server.js:90-134) up to the await of axios.post *)
Generate(S, i, k) ==
  IF ~apiKeySet
    THEN Settle(S, i, FALSE, PlainError("GEMINI_API_KEY is not set in environment variables"))
    ELSE [S EXCEPT !.pc[i] = "calling", !.retryCount[i] = k, !.timer[i] = 0,
                   !.calls = Logged(@, NewCall(i, PromptArg(S, i), k, S.now)),
                   !.attempts[i] = @ + 1]

(* a finally block that leaves the flag set when the queue is empty *)
FinallyKeepsFlag(S) ==
  IF Len(S.requestQueue) > 0 THEN ProcessQueue([S EXCEPT !.isProcessing = FALSE])
                             ELSE S

(* a finally block that clears the flag and does not look at the queue *)
FinallyNoRestart(S) == [S EXCEPT !.isProcessing = FALSE]

(* the finally block of processQueue (server.js:41-46) *)
Finally(S) ==
  LET S1 == [S EXCEPT !.isProcessing = FALSE]
  IN  IF Len(S1.requestQueue) > 0 THEN ProcessQueue(S1) ELSE S1

(* a worker that stamps lastRequestTime when the call has settled, also    *)
(* when it failed                                                          *)
SettleStampsAlways(S, i, ok, err) ==
  IF ok
    THEN Finally([S EXCEPT !.lastRequestTime = S.now, !.retryCount[i] = 0,
                           !.pc[i] = "savingUser", !.userTime[i] = S.now])
    ELSE Finally(HandlerCatch([S EXCEPT !.lastRequestTime = S.now], i, err))

(* The rest of processQueue after generateTextFromGemini has settled       *)
(* (server.js:36-46) and the continuation of the route handler that the    *)
(* settled promise wakes: on success the construction of userMessage and   *)
(* the start of its save (server.js:187-194), on failure the catch block.  *)
Settle(S, i, ok, err) ==
  IF ok
    THEN Finally([S EXCEPT !.lastRequestTime = S.now, !.retryCount[i] = 0,
                           !.pc[i] = "savingUser", !.userTime[i] = S.now])
    ELSE Finally(HandlerCatch(S, i, err))

(* ---------------- the chat UI: state ----------------------------------- *)
Chains == 1..MaxSubmits

(* what the user can have in the input field *)
FieldTexts == {<<>>, <<" ">>, <<" ", "h", "i", " ">>}

Null == "null"

(* the state of the component after its first render (useState,            *)
(* GenerateTextComponent.js:11-15)                                         *)
UiConstructed ==
  /\ prompt = <<>>
  /\ messages = <<>>
  /\ error = Null
  /\ isLoading = FALSE
  /\ retryAfter = 0
  /\ uiPc = [k \in Chains |-> "unused"]
  /\ uiSent = [k \in Chains |-> <<>>]
  /\ uiSends = [k \in Chains |-> 0]
  /\ uiDue = [k \in Chains |-> 0]
  /\ timersSet = [k \in Chains |-> 0]
  /\ submitEvents = 0

(* ---------------- actions ---------------------------------------------- *)
(* the server after start-up (server.js:13-20) *)
ServerStarted ==
  /\ now = StartTime
  /\ apiKeySet \in BOOLEAN
  /\ lastRequestTime = 0
  /\ isProcessing = FALSE
  /\ requestQueue = <<>>
  /\ body = [i \in Reqs |-> <<"?">>]
  /\ pc = [i \in Reqs |-> "new"]
  /\ retryCount = [i \in Reqs |-> 0]
  /\ timer = [i \in Reqs |-> 0]
  /\ genText = [i \in Reqs |-> ""]
  /\ userTime = [i \in Reqs |-> 0]
  /\ asstTime = [i \in Reqs |-> 0]
  /\ res = [i \in Reqs |-> NoRes]
  /\ store = <<>>
  /\ calls = <<>>
  /\ attempts = [i \in Reqs |-> 0]

Init == ServerStarted /\ backendBacked = TRUE /\ UiConstructed

(* the clock advances; StartTime is the time of the first request, and    *)
(* nothing is left to time once every request is answered                  *)
Tick ==
  /\ pc[1] # "new"
  /\ \E i \in Reqs : pc[i] # "done"
  /\ now + TickMs <= MaxNow
  /\ now' = now + TickMs
  /\ UNCHANGED <<apiKeySet, lastRequestTime, isProcessing, requestQueue, body, pc,
                 retryCount, timer, genText, userTime, asstTime, res, store, calls,
                 attempts, uiVars>>

(* POST /generate-text1 arrives (server.js:171-185); requests are numbered *)
(* in their order of arrival                                               *)
Arrive(i, b) ==
  /\ pc[i] = "new"
  /\ \A j \in Reqs : j < i => pc[j] # "new"
  /\ IF PromptMissing(b)
       THEN Becomes([St EXCEPT !.body[i] = b, !.pc[i] = "done",
                               !.res[i] = [NoRes EXCEPT !.status = 400,
                                                        !.error = "Prompt is required"]])
       ELSE Becomes(ProcessQueue([St EXCEPT !.body[i] = b, !.pc[i] = "queued",
                                            !.requestQueue = Append(@, i)]))

(* the timer of server.js:33 fires *)
RateTimerFires(i) ==
  /\ pc[i] = "rateWait"
  /\ now >= timer[i]
  /\ Becomes(Generate(St, i, 0))

(* the timer of server.js:158 fires *)
BackoffTimerFires(i) ==
  /\ pc[i] = "backoff"
  /\ now >= timer[i]
  /\ Becomes(Generate(St, i, retryCount[i] + 1))

(* the call in flight ends; the history keeps it alone, as the call the   *)
(* next one is compared with                                              *)
CloseCall(cs, t, what, st) ==
  <<[cs[Len(cs)] EXCEPT !.end = t, !.outcome = what, !.status = st]>>

(* the catch block of generateTextFromGemini (server.js:147-167) *)
GeminiCatch(S, i, err) ==
  IF ShouldRetry(err.hasResponse, err.status, S.retryCount[i])
    THEN [S EXCEPT !.pc[i] = "backoff",
                   !.timer[i] = S.now + RetryDelay(S.retryCount[i])]
  ELSE IF err.hasResponse /\ err.status = 429
    THEN Settle(S, i, FALSE, PlainError("Rate limit exceeded. Please try again later."))
  ELSE Settle(S, i, FALSE, err)

(* axios.post resolves with a well-formed body (server.js:132-146) *)
UpstreamOk(i) ==
  /\ pc[i] = "calling"
  /\ Becomes(Settle([St EXCEPT !.genText[i] = TextFor(Prompt(body[i])),
                               !.calls = CloseCall(@, now, "ok", 200)],
                    i, TRUE, PlainError("")))

(* a body without a usable candidate taken as an answer with an empty text *)
UpstreamMalformedAccepted(i) ==
  /\ pc[i] = "calling"
  /\ Becomes(Settle([St EXCEPT !.genText[i] = "",
                               !.calls = CloseCall(@, now, "malformed", 200)],
                    i, TRUE, PlainError("")))

(* axios.post resolves with a body without a usable candidate (server.js:136-138) *)
UpstreamMalformed(i) ==
  /\ pc[i] = "calling"
  /\ Becomes(GeminiCatch([St EXCEPT !.calls = CloseCall(@, now, "malformed", 200)],
                         i, PlainError("Invalid response format from Gemini API")))

(* the statuses the upstream API answers with when it refuses a call *)
UpstreamErrorStatuses == {429, 503}

(* axios.post rejects with an HTTP status (server.js:147-167) *)
UpstreamHttpError(i, st) ==
  /\ pc[i] = "calling"
  /\ Becomes(GeminiCatch([St EXCEPT !.calls = CloseCall(@, now,
                                              IF st = 429 THEN "429" ELSE "http", st)],
                         i, AxiosHttpError(st)))

(* axios.post rejects without a response: timeout or network error *)
UpstreamNoResponse(i) ==
  /\ pc[i] = "calling"
  /\ Becomes(GeminiCatch([St EXCEPT !.calls = CloseCall(@, now, "noresponse", 0)],
                         i, AxiosNoResponse))

(* a record of the Ai collection (server.js:81-85); ex is the exchange it  *)
(* was written for (history only)                                          *)
Doc(role, content, intime, i) ==
  [role |-> role, content |-> content, intime |-> intime, ex |-> i]

(* a save that puts the record in front *)
SavedInFront(st, doc) == <<doc>> \o st

(* the store after a successful save *)
Saved(st, doc) == Append(st, doc)

(* a user record stamped when its save completes *)
UserDocStampedLate(i) == Doc("user", Prompt(body[i]), now, i)

UserDoc(i) == Doc("user", Prompt(body[i]), userTime[i], i)

(* an answer record that stores the prompt again *)
AsstDocPrompt(i) == Doc("Alan-Ai", Prompt(body[i]), asstTime[i], i)

AsstDoc(i) == Doc("Alan-Ai", genText[i], asstTime[i], i)

(* userMessage.save() succeeds; geminiResponseMessage is constructed and   *)
(* its save starts (server.js:194-201)                                     *)
SaveUserOk(i) ==
  /\ pc[i] = "savingUser"
  /\ Becomes([St EXCEPT !.store = Saved(@, UserDoc(i)),
                        !.pc[i] = "savingAsst", !.asstTime[i] = now])

(* geminiResponseMessage.save() succeeds; the success response is sent     *)
(* (server.js:201-208)                                                     *)
SaveAsstOk(i) ==
  /\ pc[i] = "savingAsst"
  /\ Becomes([St EXCEPT !.store = Saved(@, AsstDoc(i)),
                        !.pc[i] = "done",
                        !.res[i] = [NoRes EXCEPT !.status = 200,
                                                 !.userInput = Prompt(body[i]),
                                                 !.time = userTime[i],
                                                 !.gpt3Response = genText[i]]])

SaveErrorNames == {"MongoError", "MongoServerError"}

(* a save rejects (server.js:194, 201, 209) *)
SaveFails(i, nm) ==
  /\ pc[i] \in {"savingUser", "savingAsst"}
  /\ Becomes(HandlerCatch(St, i, SaveError(nm)))

Next ==
  \/ Tick
  \/ \E i \in Reqs : \E b \in Bodies(i) : Arrive(i, b)
  \/ \E i \in Reqs : RateTimerFires(i)
  \/ \E i \in Reqs : BackoffTimerFires(i)
  \/ \E i \in Reqs : UpstreamOk(i)
  \/ \E i \in Reqs : UpstreamMalformed(i)
  \/ \E i \in Reqs, st \in UpstreamErrorStatuses : UpstreamHttpError(i, st)
  \/ \E i \in Reqs : UpstreamNoResponse(i)
  \/ \E i \in Reqs : SaveUserOk(i)
  \/ \E i \in Reqs : SaveAsstOk(i)
  \/ \E i \in Reqs, nm \in SaveErrorNames : SaveFails(i, nm)

Spec == Init /\ [][Next]_vars

(* ---------------- progress --------------------------------------------- *)
(* The clock of the model stops at MaxNow, which then stands for every     *)
(* later time: a timer still pending at MaxNow fires there.                *)
RateTimerLate(i) ==
  /\ pc[i] = "rateWait"
  /\ now = MaxNow /\ now < timer[i]
  /\ Becomes(Generate(St, i, 0))

BackoffTimerLate(i) ==
  /\ pc[i] = "backoff"
  /\ now = MaxNow /\ now < timer[i]
  /\ Becomes(Generate(St, i, retryCount[i] + 1))

(* axios.post settles, one way or another (it has a timeout of 30000 ms,   *)
(* server.js:133)                                                          *)
UpstreamSettles(i) ==
  \/ UpstreamOk(i)
  \/ UpstreamMalformed(i)
  \/ \E st \in UpstreamErrorStatuses : UpstreamHttpError(i, st)
  \/ UpstreamNoResponse(i)

(* a pending save settles, one way or another *)
SaveSettles(i) ==
  \/ SaveUserOk(i)
  \/ SaveAsstOk(i)
  \/ \E nm \in SaveErrorNames : SaveFails(i, nm)

NextLate ==
  \/ Next
  \/ \E i \in Reqs : RateTimerLate(i)
  \/ \E i \in Reqs : BackoffTimerLate(i)

(* the event loop runs every timer that is due, and every upstream call    *)
(* returns or fails                                                        *)
WorkerFairness ==
  /\ WF_vars(Tick)
  /\ \A i \in Reqs : WF_vars(RateTimerFires(i) \/ RateTimerLate(i))
  /\ \A i \in Reqs : WF_vars(BackoffTimerFires(i) \/ BackoffTimerLate(i))
  /\ \A i \in Reqs : WF_vars(UpstreamSettles(i))

FairSpec == Init /\ [][NextLate]_vars /\ WorkerFairness

(* in addition, every save returns or fails *)
FairSaveSpec ==
  Init /\ [][NextLate]_vars /\ WorkerFairness /\ \A i \in Reqs : WF_vars(SaveSettles(i))

TypeOK ==
  /\ now \in StartTime..MaxNow
  /\ isProcessing \in BOOLEAN
  /\ \A i \in Reqs : pc[i] \in {"new", "queued", "rateWait", "calling", "backoff",
                                "savingUser", "savingAsst", "done"}

(* ======================= properties ==================================== *)
InFlight == {i \in Reqs : pc[i] = "calling"}
Processed == {i \in Reqs : pc[i] \in {"rateWait", "calling", "backoff"}}
InQueue(i) == \E n \in 1..Len(requestQueue) : requestQueue[n] = i
Succeeded(i) == res[i].status = 200
RecordsOf(i) == {n \in 1..Len(store) : store[n].ex = i}
LastCall == calls[Len(calls)]

(* C1: at most one upstream call is in flight at any moment, at most one   *)
(* request is being processed (waiting for the rate-limit delay, calling   *)
(* upstream or backing off), and a request that arrived while another is   *)
(* being processed stays in the queue, not started.                        *)
C1_OneInFlight ==
  /\ Cardinality(InFlight) <= 1
  /\ Cardinality(Processed) <= 1
  /\ \A i \in Reqs : InQueue(i) => pc[i] = "queued" /\ attempts[i] = 0
  /\ \A i \in Reqs : pc[i] = "queued" => InQueue(i) /\ Processed # {}

C1_Witness ==
  \E i, j \in Reqs : pc[i] = "calling" /\ pc[j] = "queued" /\ InQueue(j)

C3_Original ==
  (Len(calls) = 2 /\ calls[2].retry = 0 /\ calls[2].req # calls[1].req) =>
     calls[2].start - calls[1].end >= RATE_LIMIT_DELAY

(* C4: a request whose attempts were all answered 429, up to the attempt   *)
(* cap, is answered with HTTP status 429 and a body that reports the       *)
(* exceeded rate limit.                                                    *)
C4_Original ==
  \A i \in Reqs :
    (/\ Len(calls) > 0
     /\ LastCall.req = i
     /\ LastCall.retry = MAX_RETRIES
     /\ LastCall.outcome = "429") =>
       /\ res[i].status = 429
       /\ res[i].error = "Rate limit exceeded"

(* C5: the wait after the 429 answer to attempt k (k = 0, 1, 2) is         *)
(* 1000, 2000, 4000 ms, and attempt k + 1 is not sent before that wait     *)
(* has elapsed since the 429 answer.                                       *)
ExpectedWait == <<1000, 2000, 4000>>

C5_BackoffDoubles ==
  /\ \A i \in Reqs :
       pc[i] = "backoff" =>
         /\ retryCount[i] \in 0..2
         /\ LastCall.req = i /\ LastCall.outcome = "429"
         /\ timer[i] - LastCall.end = ExpectedWait[retryCount[i] + 1]
  /\ (Len(calls) > 0 /\ LastCall.retry > 0 /\ LastCall.outcome = "pending") =>
       /\ Len(calls) = 2
       /\ calls[1].req = calls[2].req
       /\ calls[1].retry = calls[2].retry - 1
       /\ calls[1].outcome = "429"
       /\ calls[2].start - calls[1].end >= ExpectedWait[calls[2].retry]

C5_Witness ==
  /\ Len(calls) = 2
  /\ calls[2].retry = 3
  /\ calls[2].start - calls[1].end = 4000

(* C6: a request makes at most MAX_RETRIES + 1 = 4 upstream calls, and the *)
(* 429 answer to the fourth call ends the request with a rejection: no     *)
(* further call or wait follows it.                                        *)
C6_RetriesBounded ==
  \A i \in Reqs :
    /\ attempts[i] <= 4
    /\ retryCount[i] <= 3
    /\ (Len(calls) > 0 /\ LastCall.req = i /\ LastCall.outcome = "429"
        /\ attempts[i] = 4) =>
          (pc[i] = "done" /\ res[i].status >= 400)

C6_Witness ==
  \E i \in Reqs :
    /\ attempts[i] = 4
    /\ LastCall.req = i /\ LastCall.outcome = "429"
    /\ pc[i] = "done"

(* C7: a request without prompt or with the empty prompt is answered 400   *)
(* in the step in which it arrives, and that step leaves requestQueue,     *)
(* isProcessing, lastRequestTime, the store and the upstream calls as they *)
(* were; such a request is never in the queue, makes no upstream call and  *)
(* has no record.                                                          *)
NoPrompt(b) == b \in {<<>>, <<"">>}

C7_EmptyPromptRejected ==
  /\ [](\A i \in Reqs :
          (pc[i] # "new" /\ NoPrompt(body[i])) =>
             /\ pc[i] = "done" /\ res[i].status = 400
             /\ ~InQueue(i) /\ attempts[i] = 0 /\ RecordsOf(i) = {})
  /\ [][\A i \in Reqs :
          (pc[i] = "new" /\ pc'[i] # "new" /\ NoPrompt(body'[i])) =>
             UNCHANGED <<requestQueue, isProcessing, lastRequestTime, store,
                         calls, attempts>>]_vars

C7_Witness ==
  \E i, j \in Reqs :
    /\ NoPrompt(body[i]) /\ res[i].status = 400
    /\ pc[j] = "calling" /\ isProcessing

(* C8: an exchange answered with success has exactly two records in the    *)
(* store, the user record with the prompt first and the record of the      *)
(* answer with the generated text second, and the timestamp of the first   *)
(* is at most that of the second.                                          *)
C8_TwoOrderedRecords ==
  \A i \in Reqs :
    Succeeded(i) =>
      /\ Cardinality(RecordsOf(i)) = 2
      /\ \E a, b \in RecordsOf(i) :
           /\ a < b
           /\ store[a].role = "user"
           /\ store[a].content = PromptOf(i)
           /\ store[b].role # "user"
           /\ store[b].content = TextFor(PromptOf(i))
           /\ store[b].content = res[i].gpt3Response
           /\ store[a].intime <= store[b].intime

C8_Witness ==
  \E i \in Reqs :
    /\ Succeeded(i)
    /\ \E a, b \in RecordsOf(i) : a < b /\ store[a].intime < store[b].intime

(* C9: the store is append-only: in every step the records already         *)
(* persisted are a prefix of the records after the step.                   *)
C9_AppendOnly ==
  [][/\ Len(store) <= Len(store')
     /\ SubSeq(store', 1, Len(store)) = store]_vars

C9_Witness ==
  /\ Len(store) >= 3
  /\ \E a, b \in 1..Len(store) : store[a].ex # store[b].ex

(* C10: for two successful requests of which the first arrived first, both *)
(* records of the first precede both records of the second in the store.   *)
C10_Original ==
  \A i, j \in Reqs :
    (i < j /\ Succeeded(i) /\ Succeeded(j)) =>
       \A a \in RecordsOf(i), b \in RecordsOf(j) : a < b

(* C11: every persisted record has a role in {user, assistant}.            *)
C11_Original ==
  \A n \in 1..Len(store) : store[n].role \in {"user", "assistant"}

(* C12: a request whose upstream call failed with an HTTP status other     *)
(* than 429 is answered with that status, and the body of the upstream     *)
(* response is the details of the JSON error body.                         *)
C12_StatusPassedThrough ==
  \A i \in Reqs :
    (/\ Len(calls) > 0
     /\ LastCall.req = i
     /\ LastCall.outcome = "http") =>
       /\ LastCall.status # 429
       /\ pc[i] = "done"
       /\ res[i].status = LastCall.status
       /\ res[i].error = "Gemini API Error"
       /\ res[i].details = "upstream body of " \o ToString(LastCall.status)

C12_Witness ==
  \E i \in Reqs :
    /\ Len(calls) > 0
    /\ LastCall.req = i
    /\ LastCall.outcome = "http"
    /\ res[i].status = 503

(* C13: when the save of the user record or of the assistant record        *)
(* fails, the caller receives HTTP 500 with error "Database Error".        *)
C13_Original ==
  [][\A i \in Reqs :
       (/\ pc[i] \in {"savingUser", "savingAsst"}
        /\ pc'[i] = "done"
        /\ res'[i].status # 200) =>
          /\ res'[i].status = 500
          /\ res'[i].error = "Database Error"]_vars

(* C14: every request that arrived is eventually answered, provided every  *)
(* upstream call and every save returns or fails; the answer is the        *)
(* success body or a JSON error body with a 4xx/5xx status; a request is   *)
(* answered at most once: an answer that was sent never changes, and the   *)
(* handling of a request has ended exactly when its answer is sent.        *)
Answered(i) == res[i] # NoRes

C14_OneResponse ==
  /\ \A i \in Reqs : [](pc[i] # "new" => <>Answered(i))
  /\ [](\A i \in Reqs :
          /\ Answered(i) <=> pc[i] = "done"
          /\ Answered(i) => \/ res[i].status = 200 /\ res[i].error = ""
                            \/ res[i].status \in 400..599 /\ res[i].error # "")
  /\ [][\A i \in Reqs : Answered(i) => res'[i] = res[i]]_vars

C14_Witness ==
  /\ \E i \in Reqs : res[i].status = 200
  /\ \E i \in Reqs : res[i].status = 400
  /\ \E i \in Reqs : Answered(i) /\ now = MaxNow

(* C15: a success response carries the prompt of its request, the text     *)
(* the upstream API generated for that prompt, and the timestamp of the    *)
(* user record persisted for the exchange.                                 *)
C15_OwnAnswer ==
  \A i \in Reqs :
    Succeeded(i) =>
      /\ res[i].userInput = PromptOf(i)
      /\ res[i].gpt3Response = TextFor(PromptOf(i))
      /\ \A j \in Reqs : j # i => res[i].gpt3Response # TextFor(PromptOf(j))
      /\ \E n \in RecordsOf(i) :
           /\ store[n].role = "user"
           /\ store[n].intime = res[i].time

C15_Witness ==
  /\ \A i \in Reqs : Succeeded(i)
  /\ \E i \in Reqs : \E n \in RecordsOf(i) : store[n].intime > res[i].time

(* C16: the queue is drained in the order of the pushes.  For two accepted *)
(* requests of which the first was pushed first: the second has made an    *)
(* upstream call only if the first has, and the promise of the second is   *)
(* settled only if that of the first is.  The queue holds the waiting      *)
(* requests in the order of their pushes, each once, and an accepted       *)
(* request whose promise is not settled is in the queue or being           *)
(* processed: none is dropped.                                             *)
Pushed(i) == pc[i] # "new" /\ ~NoPrompt(body[i])
PromiseSettled(i) == Pushed(i) /\ pc[i] \in {"savingUser", "savingAsst", "done"}

C17_RetrySameRequest ==
  /\ \A n \in 1..Len(calls) : calls[n].prompt = PromptOf(calls[n].req)
  /\ (Len(calls) > 0 /\ LastCall.retry > 0 /\ LastCall.outcome = "pending") =>
        /\ Len(calls) = 2
        /\ calls[1].req = calls[2].req
        /\ calls[1].prompt = calls[2].prompt
  /\ \A i \in Reqs :
       (i \in Processed /\ attempts[i] > 0) =>
          /\ LastCall.req = i
          /\ LastCall.retry = attempts[i] - 1
          /\ InFlight \subseteq {i}
          /\ pc[i] = "backoff" => InFlight = {}

C17_Witness ==
  \E i, j \in Reqs :
    /\ pc[i] = "calling" /\ attempts[i] = 3
    /\ pc[j] = "queued"
    /\ calls[1].req = i /\ calls[2].req = i

(* C18: an upstream call that fails otherwise than with 429 (another HTTP  *)
(* status, no response, a malformed body) ends its request with a          *)
(* rejection in the same step: the request is answered with an error and   *)
(* is not processed any further.  A request that is answered makes no      *)
(* further upstream call and saves no further record, and the step in      *)
(* which a save fails answers the request and writes nothing.              *)
C18_NoOtherRetry ==
  /\ [](\A i \in Reqs :
          (/\ Len(calls) > 0
           /\ LastCall.req = i
           /\ LastCall.outcome \in {"http", "noresponse", "malformed"}) =>
             /\ pc[i] = "done"
             /\ res[i].status >= 400
             /\ RecordsOf(i) = {})
  /\ [][\A i \in Reqs :
          /\ pc[i] = "done" =>
               /\ pc'[i] = "done"
               /\ attempts'[i] = attempts[i]
               /\ {n \in 1..Len(store') : store'[n].ex = i} = RecordsOf(i)
          /\ (pc[i] \in {"savingUser", "savingAsst"} /\ res'[i].status >= 400) =>
               /\ pc'[i] = "done"
               /\ store' = store
               /\ attempts' = attempts]_vars

C18_Witness ==
  \E i, j \in Reqs :
    /\ i # j
    /\ Len(calls) > 0
    /\ LastCall.req = i /\ LastCall.outcome = "noresponse" /\ LastCall.retry = 1
    /\ res[j].status = 500 /\ Cardinality(RecordsOf(j)) = 1

(* C19: every request pushed onto the queue eventually has its promise     *)
(* settled, provided every upstream call returns or fails, also when it    *)
(* was pushed while another request was processed and when the request     *)
(* before it was rejected; a settled promise stays settled, and its        *)
(* request is never processed again.                                       *)
C19_EveryRequestSettled ==
  /\ \A i \in Reqs : [](Pushed(i) => <>PromiseSettled(i))
  /\ [][\A i \in Reqs :
          PromiseSettled(i) =>
             /\ pc'[i] \in {"savingUser", "savingAsst", "done"}
             /\ attempts'[i] = attempts[i]]_vars

C19_Witness ==
  \E i, j \in Reqs :
    /\ i < j
    /\ attempts[i] > 0 /\ res[i].status >= 400
    /\ attempts[j] > 0 /\ LastCall.req = j
    /\ PromiseSettled(j)

(* C20: between two event handlers, a non-empty queue implies that         *)
(* isProcessing is set, and isProcessing is set exactly when one request   *)
(* has been taken from the queue and its promise is not settled yet; so    *)
(* the flag is clear after a processed request, resolved or rejected,      *)
(* unless the next request has been taken.                                 *)
C20_FlagMeansBusy ==
  /\ Len(requestQueue) > 0 => isProcessing
  /\ isProcessing <=> Cardinality(Processed) = 1
  /\ ~isProcessing <=> Processed = {}
  /\ \A i \in Processed : Pushed(i) /\ ~InQueue(i) /\ ~PromiseSettled(i)

C20_Witness ==
  /\ ~isProcessing
  /\ \E i, j \in Reqs :
       /\ PromiseSettled(i) /\ res[i].status = 200
       /\ PromiseSettled(j) /\ res[j].status >= 400 /\ attempts[j] > 0

(* C21: lastRequestTime changes only in the step in which an upstream call *)
(* succeeds, and is then the time at which that call completed; the step   *)
(* in which a request is answered with an error (validation, a failed      *)
(* call, a failed save) and the steps of the saves leave it unchanged.     *)
C21_StampOnSuccessOnly ==
  [][/\ lastRequestTime' # lastRequestTime =>
          /\ \E i \in Reqs : /\ pc[i] = "calling" /\ pc'[i] = "savingUser"
                              /\ calls'[1].req = i
          /\ calls'[1].outcome = "ok"
          /\ lastRequestTime' = calls'[1].end
          /\ lastRequestTime' = now
      /\ \A i \in Reqs :
           /\ (pc[i] = "calling" /\ pc'[i] = "savingUser") => lastRequestTime' = now
           /\ (pc[i] # "done" /\ pc'[i] = "done" /\ res'[i].status # 200) =>
                 lastRequestTime' = lastRequestTime
           /\ pc[i] \in {"savingUser", "savingAsst"} =>
                 (pc'[i] # pc[i] => lastRequestTime' = lastRequestTime)]_vars

C21_Witness ==
  \E i, j \in Reqs :
    /\ res[i].status = 200
    /\ res[j].status >= 400 /\ attempts[j] > 0
    /\ LastCall.req = j /\ LastCall.outcome # "pending"
    /\ 0 < lastRequestTime /\ lastRequestTime < LastCall.end

(* C22, as stated: a request answered with an error has no record in the   *)
(* store.                                                                  *)
C22_Original ==
  \A i \in Reqs : (Answered(i) /\ res[i].status >= 400) => RecordsOf(i) = {}

(* C23: an upstream answer with a success status and no usable candidate   *)
(* ends its request in the same step: no further call is made for it, the  *)
(* caller receives HTTP 500, no record is written for it, and              *)
(* lastRequestTime stays as it was.                                        *)
C23_MalformedIsFailure ==
  /\ [][\A i \in Reqs :
          (/\ pc[i] = "calling"
           /\ calls'[1].req = i /\ calls'[1].outcome = "malformed") =>
             /\ pc'[i] = "done"
             /\ res'[i].status = 500
             /\ res'[i].error = "Error generating response"
             /\ attempts'[i] = attempts[i]
             /\ store' = store
             /\ lastRequestTime' = lastRequestTime]_vars
  /\ [](\A i \in Reqs :
          (/\ Len(calls) > 0
           /\ LastCall.req = i /\ LastCall.outcome = "malformed") =>
             /\ pc[i] = "done" /\ res[i].status = 500
             /\ RecordsOf(i) = {})

C23_Witness ==
  \E i \in Reqs :
    /\ Len(calls) > 0
    /\ LastCall.req = i /\ LastCall.outcome = "malformed"
    /\ res[i].status = 500
    /\ 0 < lastRequestTime /\ lastRequestTime < LastCall.end

(* ======================= the chat UI =================================== *)
(* The state of the component as one record. *)
Ui == [prompt |-> prompt, messages |-> messages, error |-> error,
       isLoading |-> isLoading, retryAfter |-> retryAfter, uiPc |-> uiPc,
       uiSent |-> uiSent, uiSends |-> uiSends, uiDue |-> uiDue,
       timersSet |-> timersSet, submitEvents |-> submitEvents]

UiBecomes(U) ==
  /\ prompt' = U.prompt
  /\ messages' = U.messages
  /\ error' = U.error
  /\ isLoading' = U.isLoading
  /\ retryAfter' = U.retryAfter
  /\ uiPc' = U.uiPc
  /\ uiSent' = U.uiSent
  /\ uiSends' = U.uiSends
  /\ uiDue' = U.uiDue
  /\ timersSet' = U.timersSet
  /\ submitEvents' = U.submitEvents
  /\ UNCHANGED <<backendBacked, serverVars>>

(* String.prototype.trim, on a text given as its characters *)
WhiteSpace == {" ", "\t", "\n"}

RECURSIVE TrimStart(_)
TrimStart(t) ==
  IF t = <<>> THEN t
  ELSE IF Head(t) \in WhiteSpace THEN TrimStart(Tail(t)) ELSE t

RECURSIVE TrimEnd(_)
TrimEnd(t) ==
  IF t = <<>> THEN t
  ELSE IF t[Len(t)] \in WhiteSpace THEN TrimEnd(SubSeq(t, 1, Len(t) - 1)) ELSE t

Trim(t) == TrimEnd(TrimStart(t))

(* a test that takes only the empty text for blank *)
BlankEmptyOnly(t) == t = <<>>

(* !prompt.trim() (GenerateTextComponent.js:202) *)
Blank(t) == Trim(t) = <<>>

(* an entry of the transcript; ex is the submitted prompt it belongs to    *)
(* (history only)                                                          *)
UiMsg(role, content, k) == [role |-> role, content |-> content, ex |-> k]

(* the text the UI receives for a prompt *)
AnswerTo(t) == <<"re:">> \o t

(* handleSubmit up to the await of axios.post                              *)
(* (GenerateTextComponent.js:200-213); p is the prompt in its closure      *)
HandleSubmit(U, k, p) ==
  IF Blank(p) THEN U
  ELSE [U EXCEPT !.error = Null, !.isLoading = TRUE, !.retryAfter = 0,
                 !.messages = Append(@, UiMsg("user", p, k)),
                 !.prompt = <<>>,
                 !.uiPc[k] = "awaiting", !.uiSent[k] = p, !.uiSends[k] = @ + 1]

(* a second passes while a timer is pending *)
UiTick ==
  /\ \E k \in Chains : uiPc[k] = "retryWait" /\ uiDue[k] > 0
  /\ UiBecomes([Ui EXCEPT !.uiDue = [k \in Chains |-> IF @[k] > 0 THEN @[k] - 1 ELSE 0]])

(* onChange of the input field, which is disabled while isLoading          *)
(* (GenerateTextComponent.js:351-357)                                      *)
TypePrompt(t) ==
  /\ ~isLoading
  /\ submitEvents < MaxSubmits
  /\ t # prompt
  /\ UiBecomes([Ui EXCEPT !.prompt = t])

(* a submit event of the form (GenerateTextComponent.js:349); the controls *)
(* of the form are disabled while isLoading.  The handler is the one of    *)
(* the last render, so the prompt in its closure is the state.             *)
SubmitForm ==
  /\ ~isLoading
  /\ submitEvents < MaxSubmits
  /\ LET k == submitEvents + 1
     IN  UiBecomes(HandleSubmit([Ui EXCEPT !.submitEvents = k], k, prompt))

(* axios.post resolves with an answer (GenerateTextComponent.js:255-264,   *)
(* 283-285)                                                                *)
UiRespondOk(k) ==
  /\ uiPc[k] = "awaiting"
  /\ UiBecomes([Ui EXCEPT !.messages = Append(@, UiMsg("assistant", AnswerTo(uiSent[k]), k)),
                          !.isLoading = FALSE,
                          !.uiPc[k] = "finished"])

(* the requests sent so far; the upstream answers 429 to the first         *)
(* MaxSends - 1 of them at most                                            *)
RECURSIVE SumTo(_, _)
SumTo(f, n) == IF n = 0 THEN 0 ELSE f[n] + SumTo(f, n - 1)
SendsMade == SumTo(uiSends, MaxSubmits)

(* the retryAfter field of a 429 body; 0 stands for a body without it *)
RetryAfterFields == {0, 2}

(* const retrySeconds (GenerateTextComponent.js:267, part_000:121) *)
RetrySeconds(backend, ra) == IF backend /\ ra # 0 THEN ra ELSE 5

RateLimitMessage(sec) ==
  "Rate limit exceeded. Please try again in " \o ToString(sec) \o " seconds."

(* axios.post rejects with status 429: the timer is set                    *)
(* (GenerateTextComponent.js:265-275, 283-285)                             *)
UiRespond429(k, ra) ==
  /\ uiPc[k] = "awaiting"
  /\ SendsMade < MaxSends
  /\ LET sec == RetrySeconds(backendBacked, ra)
     IN  UiBecomes([Ui EXCEPT !.retryAfter = sec,
                              !.error = RateLimitMessage(sec),
                              !.uiPc[k] = "retryWait",
                              !.uiDue[k] = sec,
                              !.timersSet[k] = @ + 1,
                              !.isLoading = FALSE])

(* the errors other than 429 that axios.post, or the check of the answer,  *)
(* ends with                                                               *)
UiErrors ==
  {[hasResponse |-> TRUE, error |-> "Gemini API Error", details |-> "upstream body"],
   [hasResponse |-> TRUE, error |-> "", details |-> "upstream body"],
   [hasResponse |-> FALSE, error |-> "", details |-> ""]}

(* const errorMessage (GenerateTextComponent.js:277-279) *)
UiErrorMessage(err) ==
  IF err.hasResponse /\ err.error # "" THEN err.error
  ELSE IF err.hasResponse /\ err.details # "" THEN err.details
  ELSE "Error generating response"

(* axios.post fails otherwise (GenerateTextComponent.js:276-285) *)
UiRespondError(k, err) ==
  /\ uiPc[k] = "awaiting"
  /\ UiBecomes([Ui EXCEPT !.error = UiErrorMessage(err),
                          !.isLoading = FALSE,
                          !.uiPc[k] = "finished"])

(* a timer callback that gives up instead of submitting again *)
RetryTimerGivesUp(k) ==
  /\ uiPc[k] = "retryWait"
  /\ uiDue[k] = 0
  /\ UiBecomes([Ui EXCEPT !.error = "Error generating response", !.retryAfter = 0,
                          !.uiDue[k] = 0, !.uiPc[k] = "finished"])

(* the callback of setTimeout (GenerateTextComponent.js:271-275): it calls *)
(* the handleSubmit that set it, whose closure holds the submitted prompt  *)
RetryTimerFires(k) ==
  /\ uiPc[k] = "retryWait"
  /\ uiDue[k] = 0
  /\ UiBecomes(HandleSubmit([Ui EXCEPT !.error = Null, !.retryAfter = 0,
                                       !.uiDue[k] = 0],
                            k, uiSent[k]))

UiInit == ServerStarted /\ apiKeySet /\ backendBacked \in BOOLEAN /\ UiConstructed

UiNext ==
  \/ UiTick
  \/ \E t \in FieldTexts : TypePrompt(t)
  \/ SubmitForm
  \/ \E k \in Chains : UiRespondOk(k)
  \/ \E k \in Chains, ra \in RetryAfterFields : UiRespond429(k, ra)
  \/ \E k \in Chains, err \in UiErrors : UiRespondError(k, err)
  \/ \E k \in Chains : RetryTimerFires(k)

UiSpec == UiInit /\ [][UiNext]_vars

Outstanding == {k \in Chains : uiPc[k] = "awaiting"}
UserMessagesOf(k) ==
  {n \in 1..Len(messages) : messages[n].role = "user" /\ messages[n].ex = k}
OnlySpaces(t) == \A n \in 1..Len(t) : t[n] \in WhiteSpace

(* C24, as stated: every submitted prompt is in the transcript exactly     *)
(* once as a user message, also after an automatic retry.                  *)
C24_Original ==
  \A k \in Chains :
    uiPc[k] # "unused" =>
      /\ Cardinality(UserMessagesOf(k)) = 1
      /\ \A n \in UserMessagesOf(k) : messages[n].content = uiSent[k]

(* C25, as stated: at most one request of handleSubmit is outstanding, and *)
(* isLoading is true exactly while one is.                                 *)
C25_Original ==
  /\ Cardinality(Outstanding) <= 1
  /\ isLoading <=> Outstanding # {}

(* C26: every 429 answer sets exactly one timer, due retrySeconds later    *)
(* (5, or the retryAfter of the answer in the variant that posts to the    *)
(* back end); a prompt waiting for its timer leaves that state only by     *)
(* being sent again, unchanged, when the timer is due, however many times  *)
(* it was sent before; no timer is set otherwise, and a prompt that was    *)
(* answered 429 only has not ended.                                        *)
C26_RetryEvery429 ==
  /\ [][\A k \in Chains :
          /\ (uiPc[k] = "awaiting" /\ uiPc'[k] = "retryWait") =>
                /\ timersSet'[k] = timersSet[k] + 1
                /\ uiDue'[k] \in (IF backendBacked THEN {5} \cup (RetryAfterFields \ {0})
                                                   ELSE {5})
                /\ retryAfter' = uiDue'[k]
                /\ error' = "Rate limit exceeded. Please try again in "
                              \o ToString(retryAfter') \o " seconds."
          /\ (uiPc[k] = "retryWait" /\ uiPc'[k] # "retryWait") =>
                /\ uiDue[k] = 0
                /\ uiPc'[k] = "awaiting"
                /\ uiSent'[k] = uiSent[k]
                /\ uiSends'[k] = uiSends[k] + 1
                /\ error' = Null /\ retryAfter' = 0
          /\ timersSet'[k] # timersSet[k] =>
                (uiPc[k] = "awaiting" /\ uiPc'[k] = "retryWait")]_vars
  /\ [](\A k \in Chains :
          /\ uiPc[k] = "retryWait" => timersSet[k] = uiSends[k]
          /\ uiPc[k] = "awaiting" => timersSet[k] = uiSends[k] - 1
          /\ uiPc[k] = "finished" => timersSet[k] = uiSends[k] - 1)

C26_Witness ==
  \E k \in Chains :
    /\ uiPc[k] = "awaiting"
    /\ uiSends[k] = 3 /\ timersSet[k] = 2

(* C27: a submit event that finds an empty or whitespace-only prompt       *)
(* changes nothing: no request is sent, and messages, error, isLoading,    *)
(* retryAfter and the input field stay as they were.                       *)
C27_BlankSubmitNoOp ==
  [][(submitEvents' # submitEvents /\ OnlySpaces(prompt)) =>
        UNCHANGED <<messages, error, isLoading, retryAfter, prompt,
                    uiPc, uiSent, uiSends, uiDue, timersSet>>]_vars

C27_Witness ==
  /\ submitEvents = MaxSubmits
  /\ prompt = <<" ">>
  /\ error # Null
  /\ \E k \in Chains : uiPc[k] = "retryWait"
====
